---- MODULE Spec2Model ----
(***************************************************************************)
(* EncryptedStaking (contracts/EncryptedStaking.sol) and MockUSDT          *)
(* (contracts/MockUSDT.sol) as a state machine.                            *)
(*                                                                         *)
(* Plaintexts are unsigned integers of up to 256 bits.  They are kept as   *)
(* little-endian sequences of bytes without leading zero bytes (zero is    *)
(* <<>>), because 10^18 wei, 2^64 and 2^128 do not fit the integers of the *)
(* model checker.  A ciphertext is a record [h |-> handle, v |-> plain-    *)
(* text]; handle 0 is the uninitialized value.                             *)
(***************************************************************************)
EXTENDS Integers, Sequences, FiniteSets, TLC

(***************************************************************************)
(* Unsigned integers of arbitrary size                                     *)
(***************************************************************************)
Base ==
  2^8

RECURSIVE Norm(_)
Norm(s) ==
  IF s = <<>> THEN <<>>
  ELSE IF s[Len(s)] = 0 THEN Norm(SubSeq(s, 1, Len(s) - 1)) ELSE s

RECURSIVE FromInt(_)
FromInt(n) ==
  IF n = 0 THEN <<>> ELSE <<n % Base>> \o FromInt(n \div Base)

Limb(s, i) ==
  IF i <= Len(s) THEN s[i] ELSE 0

MaxOf(a, b) ==
  IF a >= b THEN a ELSE b

RECURSIVE AddC(_, _, _, _)
AddC(a, b, i, c) ==
  IF i > MaxOf(Len(a), Len(b)) THEN (IF c = 0 THEN <<>> ELSE <<c>>)
  ELSE LET t == Limb(a, i) + Limb(b, i) + c
       IN  <<t % Base>> \o AddC(a, b, i + 1, t \div Base)

Add(a, b) ==
  AddC(a, b, 1, 0)

RECURSIVE LessFrom(_, _, _)
LessFrom(a, b, i) ==
  IF i = 0 THEN FALSE
  ELSE IF a[i] # b[i] THEN a[i] < b[i] ELSE LessFrom(a, b, i - 1)

Less(a, b) ==
  IF Len(a) # Len(b) THEN Len(a) < Len(b) ELSE LessFrom(a, b, Len(a))

Leq(a, b) ==
  ~Less(b, a)

RECURSIVE SubB(_, _, _, _)
SubB(a, b, i, br) ==
  IF i > Len(a) THEN <<>>
  ELSE LET t == a[i] - Limb(b, i) - br
       IN  IF t < 0 THEN <<t + Base>> \o SubB(a, b, i + 1, 1)
                    ELSE <<t>> \o SubB(a, b, i + 1, 0)

\* a - b for a >= b
Sub(a, b) ==
  Norm(SubB(a, b, 1, 0))

RECURSIVE MulC(_, _, _, _)
MulC(a, k, i, c) ==
  IF i > Len(a) THEN FromInt(c)
  ELSE LET t == a[i] * k + c
       IN  <<t % Base>> \o MulC(a, k, i + 1, t \div Base)

\* a * k for a factor k < 2^23
MulSmall(a, k) ==
  Norm(MulC(a, k, 1, 0))

\* long division of the bytes of a, most significant first, four bits at a
\* time: quotient and rest
RECURSIVE DivHi(_, _)
DivHi(a, d) ==
  IF a = <<>> THEN [q |-> <<>>, r |-> 0]
  ELSE LET hi == DivHi(Tail(a), d)
           c1 == hi.r * 16 + (Head(a) \div 16)
           c2 == (c1 % d) * 16 + (Head(a) % 16)
       IN  [q |-> <<(c1 \div d) * 16 + (c2 \div d)>> \o hi.q, r |-> c2 % d]

\* floor(a / d) for a divisor d < 2^27
DivSmall(a, d) ==
  Norm(DivHi(a, d).q)

\* a * 256^n
ShiftLeft(a, n) ==
  IF a = <<>> THEN <<>> ELSE [i \in 1..n |-> 0] \o a

\* a mod 256^n: the low n bytes
LowBytes(a, n) ==
  IF Len(a) <= n THEN a ELSE Norm(SubSeq(a, 1, n))

Zero ==
  <<>>

\* bytes of a uint128 and of a uint64
BYTES128 ==
  128 \div 8

BYTES64 ==
  64 \div 8

TWO128 ==
  ShiftLeft(<<1>>, BYTES128)

TWO64 ==
  ShiftLeft(<<1>>, BYTES64)

\* type(uint128).max
UINT128_MAX ==
  Sub(TWO128, <<1>>)

\* 10^6
MILLION ==
  FromInt(1000000)

\* ethers.parseEther("1") = 10^18 wei
ONE_ETHER ==
  MulSmall(MulSmall(MILLION, 1000000), 1000000)

\* ethers.parseEther("0.5")
HALF_ETHER ==
  DivSmall(ONE_ETHER, 2)

(***************************************************************************)
(* Program constants                                                       *)
(***************************************************************************)
SECONDS_PER_DAY == 86400

PERCENT_DENOMINATOR == 100

\* the divisor 1_000_000_000_000 of _accrue is ETH_SCALE_ROOT squared
ETH_SCALE_ROOT == 1000000

\* stakeAmount of the mUSDT test: 1 mUSDT with 6 decimals
ONE_MUSDT == 1000000

(***************************************************************************)
(* Bounds of the model                                                     *)
(***************************************************************************)
\* successful calls of the staking contract and of the token's administration
MaxCalls == 3

\* of these, calls of setController and setStakingContract
MaxAdminCalls == 1

\* of these, calls by the users other than the first
MaxPeerCalls == 1

\* time advances between calls
MaxTicks == 2

\* controller mints of the reward token
MaxMints == 1

\* timestamp of the first block of the model
StartTime == 1000

Users == {"alice", "bob"}

\* the user whose calls are bounded by MaxCalls alone
FirstUser == "alice"

\* the users who are minted mUSDT and make the staking contract their operator
TokenUsers == {"alice"}

STAKING == "staking"

MUSDT == "musdt"

DEPLOYER == "deployer"

\* address(0)
ADDRESS_ZERO == "0x0"

\* a staking contract deployed later
STAKING_V2 == "staking2"

\* the accounts that call MockUSDT.mintEncrypted in a transaction of their own
TokenCallers == {DEPLOYER} \cup Users

\* the accounts that call setController and setStakingContract
Admins == {DEPLOYER, FirstUser}

\* newController of setController
NewControllers == {FirstUser, ADDRESS_ZERO}

\* newStakingContract of setStakingContract
NewStakingContracts == {STAKING_V2}

\* seconds by which one step advances block.timestamp
TimeSteps == {1, SECONDS_PER_DAY}

\* msg.value of stakeEth (a uint256)
EthAmounts == {Zero, ONE_ETHER, UINT128_MAX, TWO128}

\* amount of withdrawEth (a uint128)
WithdrawAmounts == {Zero, HALF_ETHER, ONE_ETHER}

\* plaintext of the encrypted input of stakeMusdt
MusdtAmounts == {FromInt(ONE_MUSDT), FromInt(3 * ONE_MUSDT)}

\* amount of MockUSDT.mint
MintAmounts == {FromInt(2 * ONE_MUSDT)}

(***************************************************************************)
(* The coprocessor interface (FHE library): every operation returns a      *)
(* ciphertext under the fresh handle h; arithmetic is on the unsigned      *)
(* integers of the type's width and wraps.                                 *)
(***************************************************************************)
\* the zero handle: a value no operation has produced yet
NoValue ==
  [h |-> 0, v |-> Zero]

isInitialized(c) ==
  c.h # 0

FHE_asEuint128(x, h) ==
  [h |-> h, v |-> LowBytes(x, BYTES128)]

\* the cast of a euint128 to euint64 keeps the low 64 bits
FHE_asEuint64(c, h) ==
  [h |-> h, v |-> LowBytes(c.v, BYTES64)]

FHE_add(a, b, h) ==
  [h |-> h, v |-> LowBytes(Add(a.v, b.v), BYTES128)]

\* a subtraction that takes nothing away
FHE_subNothing(a, b, h) ==
  [h |-> h, v |-> a.v]

\* FHE.sub(euint128, euint128) wraps below zero
FHE_sub(a, b, h) ==
  [h |-> h, v |-> IF Leq(b.v, a.v) THEN Sub(a.v, b.v)
                  ELSE Sub(Add(a.v, TWO128), b.v)]

\* FHE.mul(euint128, uint128): an uninitialized operand counts as zero
FHE_mul(a, k, h) ==
  [h |-> h, v |-> LowBytes(MulSmall(a.v, k), BYTES128)]

\* FHE.div(euint128, uint128)
FHE_div(a, d, h) ==
  [h |-> h, v |-> DivSmall(a.v, d)]

\* FHE.div(euint128, d * d): floor(floor(x / d) / d) = floor(x / (d * d))
FHE_divSquare(a, d, h) ==
  [h |-> h, v |-> DivSmall(DivSmall(a.v, d), d)]

(***************************************************************************)
(* State                                                                   *)
(***************************************************************************)
VARIABLES
  now,            \* block.timestamp
  stakes,         \* mapping(address => StakeInfo)
  nextHandle,     \* handles the coprocessor has given out
  acl,            \* decrypt grants: pairs <<handle, principal>>
  publicValues,   \* ciphertexts marked publicly decryptable
  ethBalance,     \* address(this).balance
  received,       \* native asset each user received from the contract
  deposited,      \* native asset each user paid in with stakeEth
  musdtBalance,   \* MockUSDT confidential balances (plaintexts)
  totalSupply,    \* MockUSDT total supply (plaintext)
  operators,      \* users who made the staking contract their operator
  controller,     \* MockUSDT.controller
  stakingContract,\* MockUSDT.stakingContract
  lastCall,       \* the last call of the staking contract and its outcome
  frame,          \* the state a call in progress goes back to if it reverts
  returned,       \* what the last view call returned
  lastOk,         \* the last successful call of the staking contract
  earned,         \* interest the accruals of each user's successful calls credited
  claimed,        \* mUSDT minted to each user by claimRewards
  calls,          \* successful calls so far
  peerCalls,      \* successful calls by users other than the first
  ticks,          \* time advances so far
  mints           \* controller mints so far

vars ==
  <<now, stakes, nextHandle, acl, publicValues, ethBalance, received, deposited,
    musdtBalance, totalSupply, operators, controller, stakingContract,
    lastCall, frame, returned, lastOk, earned, claimed, calls, peerCalls, ticks, mints>>

ledgerVars ==
  <<stakes, nextHandle, acl, publicValues, ethBalance, received, deposited,
    musdtBalance, totalSupply>>

\* StakeInfo of an address that never called
EmptyStake ==
  [ethStake |-> NoValue, musdtStake |-> NoValue, pendingRewards |-> NoValue,
   lastUpdated |-> 0]

NoProof ==
  [handles |-> <<>>, clear |-> <<>>]

NoCall ==
  [op |-> "none", user |-> "none", time |-> 0]

\* no call is in progress
NoFrame ==
  [op |-> "none", stakes |-> <<>>, nextHandle |-> 0, acl |-> {}, publicValues |-> {}]

\* no view call was made
NoReturn ==
  [op |-> "none", user |-> "none", value |-> <<>>]

Init ==
  /\ now = StartTime
  /\ stakes = [u \in Users |-> EmptyStake]
  /\ nextHandle = 0
  /\ acl = {}
  /\ publicValues = {}
  /\ ethBalance = Zero
  /\ received = [u \in Users |-> Zero]
  /\ deposited = [u \in Users |-> Zero]
  /\ musdtBalance = [a \in Users \cup {STAKING} |-> Zero]
  /\ totalSupply = Zero
  /\ operators = {}
  /\ controller = DEPLOYER
  /\ stakingContract = STAKING
  /\ lastCall = [op |-> "none", user |-> "none", ok |-> TRUE, error |-> "",
                 time |-> 0, amount |-> Zero, pre |-> EmptyStake,
                 mid |-> EmptyStake, proof |-> NoProof, clear |-> <<>>,
                 sent |-> Zero, minted |-> Zero, ret |-> NoValue,
                 prev |-> NoCall]
  /\ frame = NoFrame
  /\ returned = NoReturn
  /\ lastOk = NoCall
  /\ earned = [u \in Users |-> Zero]
  /\ claimed = [u \in Users |-> Zero]
  /\ calls = 0
  /\ peerCalls = 0
  /\ ticks = 0
  /\ mints = 0

(***************************************************************************)
(* EncryptedStaking: private functions                                     *)
(***************************************************************************)
\* a sharing that forgets the owner of the value
shareValueLedgerOnly(value, user, makePublic) ==
  IF ~isInitialized(value)
  THEN [grants |-> {}, public |-> {}]
  ELSE [grants |-> {<<value.h, STAKING>>},
        public |-> IF makePublic THEN {value} ELSE {}]

\* _shareValue: the grants and the public marks it adds
shareValue(value, user, makePublic) ==
  IF ~isInitialized(value)
  THEN [grants |-> {}, public |-> {}]
  ELSE [grants |-> {<<value.h, STAKING>>, <<value.h, user>>},
        public |-> IF makePublic THEN {value} ELSE {}]

\* an accrual that takes no position for a new one
NeverTouchedSkipped(info) ==
  FALSE

\* "info.lastUpdated == 0": the position was never touched
NeverTouched(info) ==
  info.lastUpdated = 0

\* an accrual that pays every elapsed second
AccrualSecondsAll(elapsed) ==
  elapsed

\* the seconds that earn interest: "elapsed -= 1"
AccrualSeconds(elapsed) ==
  elapsed - 1

\* an accrual whose early returns stamp the position
IdleCheckpointNow(info, t) ==
  t

\* the checkpoint an accrual with nothing to add leaves behind: the early
\* returns write nothing
IdleCheckpoint(info, t) ==
  info.lastUpdated

\* an accrual that adds interest without moving the checkpoint
AccruedCheckpointKept(info, t) ==
  info.lastUpdated

\* the checkpoint after interest was added: "info.lastUpdated = block.timestamp"
AccruedCheckpoint(info, t) ==
  t

\* ethAccrued of _accrue
EthInterest(ethStake, e, n) ==
  FHE_divSquare(FHE_div(FHE_mul(ethStake, e, n + 1), SECONDS_PER_DAY, n + 2),
                ETH_SCALE_ROOT, n + 3)

\* musdtInterest of _accrue
MusdtInterest(musdtStake, e, n) ==
  FHE_div(FHE_mul(musdtStake, e, n + 1),
          SECONDS_PER_DAY * PERCENT_DENOMINATOR, n + 2)

\* pendingRewards after totalInterest is added
Accumulate(pendingRewards, totalInterest, h) ==
  IF isInitialized(pendingRewards)
  THEN FHE_add(pendingRewards, totalInterest, h)
  ELSE totalInterest

\* totalInterest of the accrual that took pendingRewards from before to after
Credited(before, after) ==
  IF Leq(before.v, after.v) THEN Sub(after.v, before.v)
  ELSE Sub(Add(after.v, TWO128), before.v)

\* an accrual that stores the stake under a new handle
accrueReencrypts(user, info, t, n) ==
  [info |-> [info EXCEPT !.ethStake = [h |-> n + 1, v |-> @.v],
                         !.lastUpdated = t],
   n |-> n + 1, grants |-> {}, public |-> {}]

\* an accrual that writes nothing
accrueUnstamped(user, info, t, n) ==
  [info |-> info, n |-> n, grants |-> {}, public |-> {}]

\* _accrue at timestamp t, n handles given out so far: the new StakeInfo,
\* the handles given out, and what _shareValue added
accrue(user, info, t, n) ==
  LET idle == [info |-> [info EXCEPT !.lastUpdated = IdleCheckpoint(info, t)],
               n |-> n, grants |-> {}, public |-> {}]
  IN
  IF NeverTouched(info)
  THEN [info |-> [info EXCEPT !.lastUpdated = t], n |-> n,
        grants |-> {}, public |-> {}]
  ELSE IF t - info.lastUpdated = 0 THEN idle
  ELSE IF AccrualSeconds(t - info.lastUpdated) = 0 THEN idle
  ELSE
    LET e             == AccrualSeconds(t - info.lastUpdated)
        ethAccrued    == EthInterest(info.ethStake, e, n)
        musdtInterest == MusdtInterest(info.musdtStake, e, n + 3)
        totalInterest == FHE_add(ethAccrued, musdtInterest, n + 6)
    IN
    IF ~isInitialized(totalInterest)
    THEN [info |-> [info EXCEPT !.lastUpdated = t], n |-> n + 6,
          grants |-> {}, public |-> {}]
    ELSE
      LET pending == Accumulate(info.pendingRewards, totalInterest, n + 7)
          sh      == shareValue(pending, user, TRUE)
      IN  [info |-> [info EXCEPT !.pendingRewards = pending,
                                 !.lastUpdated = AccruedCheckpoint(info, t)],
           n |-> n + 7, grants |-> sh.grants, public |-> sh.public]

(***************************************************************************)
(* Decryption proofs and calldata                                          *)
(***************************************************************************)
\* abi.encode(uint256)
AbiEncode(x) ==
  <<x>>

\* abi.decode(abiEncodedClearValue, (uint256))
AbiDecode(bytes) ==
  bytes[1]

\* what the key management service signs for a publicly decryptable value
KmsProof(c) ==
  [handles |-> <<c.h>>, clear |-> AbiEncode(c.v)]

\* a verification that accepts a signature over any handle
checkSignaturesAnyHandle(handles, abiEncodedClearValue, decryptionProof) ==
  /\ decryptionProof.handles # <<>>
  /\ decryptionProof.clear = abiEncodedClearValue

\* FHE.checkSignatures: the proof signs exactly these handles and cleartexts
checkSignatures(handles, abiEncodedClearValue, decryptionProof) ==
  /\ decryptionProof.handles = handles
  /\ decryptionProof.clear = abiEncodedClearValue

\* a bound check that forgets the decrypted stake
ExceedsStakeUnchecked(amount, decryptedStake) ==
  Less(UINT128_MAX, amount)

\* "amount > decryptedStake || amount > type(uint128).max"
ExceedsStake(amount, decryptedStake) ==
  Less(decryptedStake, amount) \/ Less(UINT128_MAX, amount)

\* the (abiEncodedClearValue, decryptionProof) pairs a caller can supply:
\* the service's answer for any public value, a signed answer with another
\* cleartext put beside it, and no signature at all
WithdrawProofs(u) ==
  {[clear |-> AbiEncode(c.v), proof |-> KmsProof(c)] : c \in publicValues}
  \cup {[clear |-> AbiEncode(UINT128_MAX), proof |-> KmsProof(stakes[u].ethStake)],
        [clear |-> AbiEncode(UINT128_MAX), proof |-> NoProof]}

(***************************************************************************)
(* MockUSDT (ERC7984): balances move by the amount or, when the amount     *)
(* does not fit, by zero                                                   *)
(***************************************************************************)
\* _mint: the amount minted, zero when the total supply would pass 2^64 - 1
Minted(amount) ==
  IF Less(Add(totalSupply, amount), TWO64) THEN amount ELSE Zero

\* a transfer that reports the amount asked for whatever the balance
TransferredAsAsked(from, amount) ==
  amount

\* confidentialTransferFrom: the amount moved, zero when the balance is short
Transferred(from, amount) ==
  IF Leq(amount, musdtBalance[from]) THEN amount ELSE Zero

\* a token that lets every account mint
onlyMinterAnyone(sender) ==
  TRUE

\* onlyMinter
onlyMinter(sender) ==
  sender = controller \/ sender = stakingContract

(***************************************************************************)
(* Outcome of a call                                                       *)
(***************************************************************************)
\* sent: native asset paid to the caller; minted: mUSDT credited to the caller;
\* ret: the value the call returned
CallRecord(op, u, ok, error, amount, mid, pair, sent, minted) ==
  [op |-> op, user |-> u, ok |-> ok, error |-> error, time |-> now,
   amount |-> amount, pre |-> stakes[u], mid |-> mid, proof |-> pair.proof,
   clear |-> pair.clear, sent |-> sent, minted |-> minted, ret |-> NoValue,
   prev |-> lastOk]

\* A reverted call leaves the whole state as it was, and so does a view call:
\* whatever can follow it can follow the state before it and is explored from
\* there, so the record of either ends the behaviour that made it.  While a
\* call is in progress no other transaction runs.
Live ==
  /\ lastCall.ok
  /\ returned.op = "none"
  /\ frame.op = "none"

\* the bound on the calls of u is not used up
MayCall(u) ==
  /\ Live
  /\ calls < MaxCalls
  /\ u # FirstUser => peerCalls < MaxPeerCalls

NoPair ==
  [clear |-> <<>>, proof |-> NoProof]

\* the call reverts: nothing but the record of it changes
Revert(op, u, error, amount, mid, pair) ==
  /\ lastCall' = CallRecord(op, u, FALSE, error, amount, mid, pair, Zero, Zero)
  /\ UNCHANGED <<ledgerVars, frame, returned, lastOk, earned, claimed, calls, peerCalls>>

Commit(op, u, amount, mid, pair, sent, minted) ==
  /\ lastCall' = CallRecord(op, u, TRUE, "", amount, mid, pair, sent, minted)
  /\ lastOk' = [op |-> op, user |-> u, time |-> now]
  /\ earned' = [earned EXCEPT ![u] =
                  Add(@, Credited(stakes[u].pendingRewards, mid.pendingRewards))]
  /\ UNCHANGED claimed
  /\ calls' = calls + 1
  /\ peerCalls' = IF u = FirstUser THEN peerCalls ELSE peerCalls + 1
  /\ UNCHANGED <<frame, returned>>

(***************************************************************************)
(* EncryptedStaking: external functions                                    *)
(***************************************************************************)
\* a check of the deposit that lets any non-zero value through
InvalidValueZeroOnly(value) ==
  value = Zero

\* msg.value == 0 || msg.value > type(uint128).max
InvalidValue(value) ==
  value = Zero \/ Less(UINT128_MAX, value)

\* a ledger that keeps one position for all accounts
StoreInfoShared(u, info) ==
  [w \in Users |-> info]

\* "StakeInfo storage info = stakes[msg.sender]": what a call writes to info
\* goes to the caller's entry of the mapping
StoreInfo(u, info) ==
  [stakes EXCEPT ![u] = info]

\* a stakeEth that adds the deposit to the stake before it accrues
stakeEthAccruesLast(u, value, n) ==
  IF InvalidValue(value)
  THEN [error |-> "InvalidAmount", mid |-> stakes[u], info |-> stakes[u],
        n |-> n, grants |-> {}, public |-> {}]
  ELSE
    LET addition == FHE_asEuint128(value, n + 1)
        newStake == IF isInitialized(stakes[u].ethStake)
                    THEN FHE_add(stakes[u].ethStake, addition, n + 2)
                    ELSE addition
        sh       == shareValue(newStake, u, TRUE)
        a        == accrue(u, [stakes[u] EXCEPT !.ethStake = newStake], now, n + 2)
    IN  [error |-> "", mid |-> stakes[u],
         info |-> [a.info EXCEPT !.lastUpdated = now],
         n |-> a.n, grants |-> a.grants \cup sh.grants,
         public |-> a.public \cup sh.public]

\* stakeEth of u with n handles given out so far: the error it reverts with
\* ("" when it succeeds), the position after the accrual and the one it
\* stores, the handles given out, and the grants and public marks added
stakeEthResult(u, value, n) ==
  IF InvalidValue(value)
  THEN [error |-> "InvalidAmount", mid |-> stakes[u], info |-> stakes[u],
        n |-> n, grants |-> {}, public |-> {}]
  ELSE
    LET a        == accrue(u, stakes[u], now, n)
        addition == FHE_asEuint128(value, a.n + 1)
        newStake == IF isInitialized(a.info.ethStake)
                    THEN FHE_add(a.info.ethStake, addition, a.n + 2)
                    ELSE addition
        sh       == shareValue(newStake, u, TRUE)
    IN  [error |-> "", mid |-> a.info,
         info |-> [a.info EXCEPT !.ethStake = newStake, !.lastUpdated = now],
         n |-> a.n + 2, grants |-> a.grants \cup sh.grants,
         public |-> a.public \cup sh.public]

\* the transaction of a stakeEth whose body came to r: it reverts, or what the
\* body wrote is stored and the deposit stays with the contract
stakeEthEnds(u, value, r) ==
  IF r.error # ""
  THEN Revert("stakeEth", u, r.error, value, r.mid, NoPair)
  ELSE
    /\ stakes' = StoreInfo(u, r.info)
    /\ nextHandle' = r.n
    /\ acl' = acl \cup r.grants
    /\ publicValues' = publicValues \cup r.public
    /\ ethBalance' = Add(ethBalance, value)
    /\ deposited' = [deposited EXCEPT ![u] = Add(@, value)]
    /\ UNCHANGED <<received, musdtBalance, totalSupply>>
    /\ Commit("stakeEth", u, value, r.mid, NoPair, Zero, Zero)

stakeEth(u, value) ==
  /\ MayCall(u)
  /\ UNCHANGED <<now, ticks, mints, operators, controller, stakingContract>>
  /\ stakeEthEnds(u, value, stakeEthResult(u, value, nextHandle))

\* a stakeMusdt that stores the increment in place of the raised stake
stakeMusdtReplaces(u, amount, proofValid, moved, n) ==
  LET a               == accrue(u, stakes[u], now, n)
      validatedAmount == [h |-> a.n + 1, v |-> amount]
      transferred     == [h |-> a.n + 2, v |-> moved]
      stakeIncrement  == FHE_asEuint128(transferred.v, a.n + 3)
      sh              == shareValue(stakeIncrement, u, TRUE)
      failed(error)   == [error |-> error, mid |-> a.info, info |-> stakes[u],
                          n |-> n, grants |-> {}, public |-> {},
                          moved |-> Zero]
  IN  IF ~proofValid THEN failed("InvalidInputProof")
      ELSE IF u \notin operators THEN failed("UnauthorizedSpender")
      ELSE [error |-> "", mid |-> a.info,
            info |-> [a.info EXCEPT !.musdtStake = stakeIncrement,
                                    !.lastUpdated = now],
            n |-> a.n + 4,
            grants |-> a.grants \cup sh.grants
                         \cup {<<validatedAmount.h, STAKING>>,
                               <<validatedAmount.h, MUSDT>>},
            public |-> a.public \cup sh.public,
            moved |-> transferred.v]

\* stakeMusdt of u with n handles given out so far; moved is the plaintext of
\* what confidentialTransferFrom returns
stakeMusdtResult(u, amount, proofValid, moved, n) ==
  LET a               == accrue(u, stakes[u], now, n)
      validatedAmount == [h |-> a.n + 1, v |-> amount]
      transferred     == [h |-> a.n + 2, v |-> moved]
      stakeIncrement  == FHE_asEuint128(transferred.v, a.n + 3)
      newStake        == IF isInitialized(a.info.musdtStake)
                         THEN FHE_add(a.info.musdtStake, stakeIncrement, a.n + 4)
                         ELSE stakeIncrement
      sh              == shareValue(newStake, u, TRUE)
      failed(error)   == [error |-> error, mid |-> a.info, info |-> stakes[u],
                          n |-> n, grants |-> {}, public |-> {},
                          moved |-> Zero]
  IN  IF ~proofValid THEN failed("InvalidInputProof")
      ELSE IF u \notin operators THEN failed("UnauthorizedSpender")
      ELSE [error |-> "", mid |-> a.info,
            info |-> [a.info EXCEPT !.musdtStake = newStake, !.lastUpdated = now],
            n |-> a.n + 4,
            grants |-> a.grants \cup sh.grants
                         \cup {<<validatedAmount.h, STAKING>>,
                               <<validatedAmount.h, MUSDT>>},
            public |-> a.public \cup sh.public,
            moved |-> transferred.v]

\* the transaction of a stakeMusdt whose body came to r: it reverts, or what
\* the body wrote is stored and the tokens are with the contract
stakeMusdtEnds(u, amount, r) ==
  IF r.error # ""
  THEN Revert("stakeMusdt", u, r.error, amount, r.mid, NoPair)
  ELSE
    /\ stakes' = StoreInfo(u, r.info)
    /\ nextHandle' = r.n
    /\ acl' = acl \cup r.grants
    /\ publicValues' = publicValues \cup r.public
    /\ musdtBalance' = [musdtBalance EXCEPT
                          ![u] = Sub(@, r.moved),
                          ![STAKING] = Add(@, r.moved)]
    /\ UNCHANGED <<ethBalance, received, deposited, totalSupply>>
    /\ Commit("stakeMusdt", u, amount, r.mid, NoPair, Zero, Zero)

stakeMusdt(u, amount, proofValid) ==
  /\ MayCall(u)
  /\ UNCHANGED <<now, ticks, mints, operators, controller, stakingContract>>
  /\ stakeMusdtEnds(u, amount,
                    stakeMusdtResult(u, amount, proofValid, Transferred(u, amount),
                                     nextHandle))

\* the state a call has to leave behind when it reverts after it called out
EnterFrame(op) ==
  [op |-> op, stakes |-> stakes, nextHandle |-> nextHandle, acl |-> acl,
   publicValues |-> publicValues]

\* a revert that keeps the grants the call had made
RevertFrameKeepingGrants(op, error) ==
  /\ stakes' = frame.stakes
  /\ nextHandle' = frame.nextHandle
  /\ UNCHANGED <<acl, publicValues>>
  /\ frame' = NoFrame
  /\ lastCall' = [lastCall EXCEPT !.op = op, !.ok = FALSE, !.error = error]
  /\ UNCHANGED <<ethBalance, received, deposited, musdtBalance, totalSupply, lastOk, earned, claimed, calls,
                 peerCalls>>

\* the call in progress reverts after its callee failed: everything it wrote
\* is undone
RevertFrame(op, error) ==
  /\ stakes' = frame.stakes
  /\ nextHandle' = frame.nextHandle
  /\ acl' = frame.acl
  /\ publicValues' = frame.publicValues
  /\ frame' = NoFrame
  /\ lastCall' = [lastCall EXCEPT !.op = op, !.ok = FALSE, !.error = error]
  /\ UNCHANGED <<ethBalance, received, deposited, musdtBalance, totalSupply, lastOk, earned, claimed, calls,
                 peerCalls>>

\* the call in progress returns
ReturnFrame(op, u) ==
  /\ frame' = NoFrame
  /\ lastOk' = [op |-> op, user |-> u, time |-> now]
  /\ earned' = [earned EXCEPT ![u] =
                  Add(@, Credited(lastCall.pre.pendingRewards,
                                  lastCall.mid.pendingRewards))]
  /\ calls' = calls + 1
  /\ peerCalls' = IF u = FirstUser THEN peerCalls ELSE peerCalls + 1
  /\ UNCHANGED <<stakes, nextHandle, acl, publicValues>>

\* withdrawEth up to msg.sender.call{value: amount}("")
\* a withdrawal that goes on without a stake
NoStakeNever(info) ==
  FALSE

\* the check withdrawEth makes after the accrual
NoStake(info) ==
  ~isInitialized(info.ethStake)

\* a withdrawal that clears the stake when nothing remains
WithdrawnPositionCleared(info, remaining, t) ==
  [info EXCEPT !.ethStake = IF remaining.v = Zero THEN NoValue ELSE remaining,
               !.lastUpdated = t]

\* a withdrawal that leaves the position for after the transfer
WithdrawnPositionLate(info, remaining, t) ==
  info

\* the position withdrawEth has stored when it makes the transfer: the stake
\* is reduced and the checkpoint is stamped
WithdrawnPosition(info, remaining, t) ==
  [info EXCEPT !.ethStake = remaining, !.lastUpdated = t]

\* withdrawEth of u up to the transfer, with n handles given out so far
withdrawEthResult(u, amount, pair, n) ==
  LET a               == accrue(u, stakes[u], now, n)
      handles         == <<a.info.ethStake.h>>
      decryptedStake  == AbiDecode(pair.clear)
      amountEncrypted == FHE_asEuint128(amount, a.n + 1)
      remaining       == FHE_sub(a.info.ethStake, amountEncrypted, a.n + 2)
      sh              == shareValue(remaining, u, TRUE)
      failed(error)   == [error |-> error, mid |-> a.info, info |-> stakes[u],
                          n |-> n, grants |-> {}, public |-> {}]
  IN  IF amount = Zero
      THEN [failed("InvalidAmount") EXCEPT !.mid = stakes[u]]
      ELSE IF NoStake(a.info) THEN failed("InvalidAmount")
      ELSE IF ~checkSignatures(handles, pair.clear, pair.proof)
      THEN failed("ProofVerificationFailed")
      ELSE IF ExceedsStake(amount, decryptedStake) THEN failed("InvalidAmount")
      ELSE [error |-> "", mid |-> a.info,
            info |-> WithdrawnPosition(a.info, remaining, now),
            n |-> a.n + 2, grants |-> a.grants \cup sh.grants,
            public |-> a.public \cup sh.public]

\* a withdrawEth whose body came to r: it reverts, or what the body wrote is
\* stored and the transfer to the caller begins
withdrawEthCalls(u, amount, pair, r) ==
  IF r.error # ""
  THEN Revert("withdrawEth", u, r.error, amount, r.mid, pair)
  ELSE
    /\ stakes' = StoreInfo(u, r.info)
    /\ nextHandle' = r.n
    /\ acl' = acl \cup r.grants
    /\ publicValues' = publicValues \cup r.public
    /\ frame' = EnterFrame("withdrawEth")
    /\ lastCall' = CallRecord("withdrawEth.call", u, TRUE, "", amount, r.mid,
                              pair, Zero, Zero)
    /\ UNCHANGED <<ethBalance, received, deposited, musdtBalance, totalSupply, returned,
                   lastOk, earned, claimed, calls, peerCalls>>

withdrawEth(u, amount, pair) ==
  /\ MayCall(u)
  /\ UNCHANGED <<now, ticks, mints, operators, controller, stakingContract>>
  /\ withdrawEthCalls(u, amount, pair, withdrawEthResult(u, amount, pair, nextHandle))

\* whether the transfer of amount to the caller goes through
Sent(amount, accepts) ==
  accepts /\ Leq(amount, ethBalance)

\* msg.sender.call{value: amount}("") and the rest of withdrawEth: the caller's
\* account takes the ether, or it does not and withdrawEth reverts
call(accepts) ==
  /\ frame.op = "withdrawEth"
  /\ UNCHANGED <<now, ticks, mints, operators, controller, stakingContract, returned>>
  /\ LET u      == lastCall.user
         amount == lastCall.amount
         sent   == Sent(amount, accepts)
     IN  IF ~sent
         THEN RevertFrame("withdrawEth", "TransferFailed")
         ELSE
           /\ ethBalance' = Sub(ethBalance, amount)
           /\ received' = [received EXCEPT ![u] = Add(@, amount)]
           /\ UNCHANGED <<deposited, claimed>>
           /\ lastCall' = [lastCall EXCEPT !.op = "withdrawEth", !.sent = amount]
           /\ UNCHANGED <<musdtBalance, totalSupply>>
           /\ ReturnFrame("withdrawEth", u)

\* a claim that deletes the rewards of the position
ClaimedPositionCleared(info, zero, t) ==
  [info EXCEPT !.pendingRewards = NoValue, !.lastUpdated = t]

\* a claim that calls the token with the rewards still in the position
ClaimedPositionStale(info, zero, t) ==
  [info EXCEPT !.lastUpdated = t]

\* the position claimRewards has stored when it calls the token: the rewards
\* are taken out and the checkpoint is stamped
ClaimedPosition(info, zero, t) ==
  [info EXCEPT !.pendingRewards = zero, !.lastUpdated = t]

\* a claim that never finds the rewards missing
NoRewardsNever(info) ==
  FALSE

\* the check claimRewards makes after the accrual
NoRewards(info) ==
  ~isInitialized(info.pendingRewards)

\* claimRewards of u up to the mint, with n handles given out so far
claimRewardsResult(u, n) ==
  LET a       == accrue(u, stakes[u], now, n)
      rewards == FHE_asEuint64(a.info.pendingRewards, a.n + 1)
      zero    == FHE_asEuint128(Zero, a.n + 2)
      sh      == shareValue(zero, u, TRUE)
  IN  IF NoRewards(a.info)
      THEN [error |-> "NoRewardsAvailable", mid |-> a.info, info |-> stakes[u],
            n |-> n, grants |-> {}, public |-> {}, rewards |-> Zero]
      ELSE [error |-> "", mid |-> a.info,
            info |-> ClaimedPosition(a.info, zero, now),
            n |-> a.n + 2,
            grants |-> a.grants \cup sh.grants
                         \cup {<<rewards.h, STAKING>>, <<rewards.h, u>>,
                               <<rewards.h, MUSDT>>},
            public |-> a.public \cup sh.public,
            rewards |-> rewards.v]

\* a claimRewards whose body came to r: it reverts, or what the body wrote is
\* stored and the call of the token begins
claimRewardsCalls(u, r) ==
  IF r.error # ""
  THEN Revert("claimRewards", u, r.error, Zero, r.mid, NoPair)
  ELSE
    /\ stakes' = StoreInfo(u, r.info)
    /\ nextHandle' = r.n
    /\ acl' = acl \cup r.grants
    /\ publicValues' = publicValues \cup r.public
    /\ frame' = EnterFrame("claimRewards")
    /\ lastCall' = CallRecord("claimRewards.mintEncrypted", u, TRUE, "",
                              r.rewards, r.mid, NoPair, Zero, Zero)
    /\ UNCHANGED <<ethBalance, received, deposited, musdtBalance, totalSupply, returned,
                   lastOk, earned, claimed, calls, peerCalls>>

\* claimRewards up to its call of musdt.mintEncrypted; lastCall.amount is the
\* plaintext of rewards, the value handed to the token
claimRewards(u) ==
  /\ MayCall(u)
  /\ UNCHANGED <<now, ticks, mints, operators, controller, stakingContract>>
  /\ claimRewardsCalls(u, claimRewardsResult(u, nextHandle))

\* a sync that returns the stake in place of the rewards
syncRewardsResultStake(info) ==
  info.ethStake

\* "return info.pendingRewards"
syncRewardsResult(info) ==
  info.pendingRewards

syncRewards(u) ==
  /\ MayCall(u)
  /\ UNCHANGED <<now, ticks, mints, operators, controller, stakingContract>>
  /\ LET a == accrue(u, stakes[u], now, nextHandle)
     IN  /\ stakes' = StoreInfo(u, a.info)
         /\ nextHandle' = a.n
         /\ acl' = acl \cup a.grants
         /\ publicValues' = publicValues \cup a.public
         /\ UNCHANGED <<ethBalance, received, deposited, musdtBalance, totalSupply>>
         /\ lastCall' = [CallRecord("syncRewards", u, TRUE, "", Zero, a.info,
                                    NoPair, Zero, Zero)
                           EXCEPT !.ret = syncRewardsResult(stakes'[u])]
         /\ lastOk' = [op |-> "syncRewards", user |-> u, time |-> now]
         /\ earned' = [earned EXCEPT ![u] =
                         Add(@, Credited(stakes[u].pendingRewards,
                                         a.info.pendingRewards))]
         /\ UNCHANGED claimed
         /\ calls' = calls + 1
         /\ peerCalls' = IF u = FirstUser THEN peerCalls ELSE peerCalls + 1
         /\ UNCHANGED <<frame, returned>>

\* a view that reports the position as an accrual would leave it
getPositionAccrued(user) ==
  LET info == accrue(user, stakes[user], now, nextHandle).info
  IN  <<info.ethStake, info.musdtStake, info.pendingRewards, info.lastUpdated>>

\* getPosition: a view call, it returns what is stored
getPositionResult(user) ==
  <<stakes[user].ethStake, stakes[user].musdtStake, stakes[user].pendingRewards,
    stakes[user].lastUpdated>>

getPosition(user) ==
  /\ Live
  /\ returned' = [op |-> "getPosition", user |-> user,
                  value |-> getPositionResult(user)]
  /\ UNCHANGED <<now, ledgerVars, operators, controller, stakingContract, lastCall,
                 frame, lastOk, earned, claimed, calls, peerCalls, ticks, mints>>

(***************************************************************************)
(* MockUSDT calls made by the users and the controller, and the clock      *)
(***************************************************************************)
\* The accounts administer the token (setController, setStakingContract,
\* mintEncrypted in a transaction of its own) before the staking contract is
\* first used; MockUSDT.mint stays open to the controller throughout.
Setup ==
  Live /\ lastOk.op = "none"

\* the record of a call of the token made in a transaction of its own
TokenCallRecord(op, sender, ok, error, amount, minted) ==
  [op |-> op, user |-> sender, ok |-> ok, error |-> error, time |-> now,
   amount |-> amount, pre |-> EmptyStake, mid |-> EmptyStake, proof |-> NoProof,
   clear |-> <<>>, sent |-> Zero, minted |-> minted, ret |-> NoValue,
   prev |-> lastOk]

\* MockUSDT.mintEncrypted.  The staking contract calls it inside claimRewards,
\* for the caller and the rewards of that call, and its revert reverts the
\* whole claimRewards; any other account calls it in a transaction of its own.
mintEncrypted(sender, to, amount) ==
  /\ UNCHANGED <<now, ticks, operators, controller, stakingContract, returned>>
  /\ IF sender = STAKING
     THEN
       /\ frame.op = "claimRewards"
       /\ to = lastCall.user
       /\ amount = lastCall.amount
       /\ UNCHANGED mints
       /\ IF ~onlyMinter(sender)
          THEN RevertFrame("claimRewards", "Unauthorized")
          ELSE
            /\ musdtBalance' = [musdtBalance EXCEPT ![to] = Add(@, Minted(amount))]
            /\ totalSupply' = Add(totalSupply, Minted(amount))
            /\ lastCall' = [lastCall EXCEPT !.op = "claimRewards",
                                            !.minted = Minted(amount)]
            /\ claimed' = [claimed EXCEPT ![to] = Add(@, Minted(amount))]
            /\ UNCHANGED <<ethBalance, received, deposited>>
            /\ ReturnFrame("claimRewards", to)
     ELSE
       /\ Setup
       /\ mints < MaxMints
       /\ UNCHANGED <<stakes, nextHandle, acl, publicValues, ethBalance, received, deposited,
                      frame, lastOk, earned, claimed, calls, peerCalls>>
       /\ IF ~onlyMinter(sender)
          THEN
            /\ lastCall' = TokenCallRecord("mintEncrypted", sender, FALSE,
                                           "Unauthorized", amount, Zero)
            /\ UNCHANGED <<musdtBalance, totalSupply, mints>>
          ELSE
            /\ mints' = mints + 1
            /\ musdtBalance' = [musdtBalance EXCEPT ![to] = Add(@, Minted(amount))]
            /\ totalSupply' = Add(totalSupply, Minted(amount))
            /\ lastCall' = TokenCallRecord("mintEncrypted", sender, TRUE, "",
                                           amount, Minted(amount))

\* MockUSDT.setController
setController(sender, newController) ==
  /\ Setup
  /\ calls < MaxAdminCalls
  /\ UNCHANGED <<now, ledgerVars, operators, stakingContract, frame, returned,
                 lastOk, earned, claimed, peerCalls, ticks, mints>>
  /\ IF sender # controller
     THEN /\ lastCall' = TokenCallRecord("setController", sender, FALSE,
                                         "Unauthorized", Zero, Zero)
          /\ UNCHANGED <<controller, calls>>
     ELSE IF newController = ADDRESS_ZERO
     THEN /\ lastCall' = TokenCallRecord("setController", sender, FALSE,
                                         "InvalidController", Zero, Zero)
          /\ UNCHANGED <<controller, calls>>
     ELSE /\ calls' = calls + 1
          /\ controller' = newController
          /\ lastCall' = TokenCallRecord("setController", sender, TRUE, "", Zero, Zero)

\* MockUSDT.setStakingContract
setStakingContract(sender, newStakingContract) ==
  /\ Setup
  /\ calls < MaxAdminCalls
  /\ UNCHANGED <<now, ledgerVars, operators, controller, frame, returned, lastOk, earned, claimed,
                 peerCalls, ticks, mints>>
  /\ IF sender # controller
     THEN /\ lastCall' = TokenCallRecord("setStakingContract", sender, FALSE,
                                         "Unauthorized", Zero, Zero)
          /\ UNCHANGED <<stakingContract, calls>>
     ELSE /\ calls' = calls + 1
          /\ stakingContract' = newStakingContract
          /\ lastCall' = TokenCallRecord("setStakingContract", sender, TRUE, "",
                                         Zero, Zero)

\* MockUSDT.mint, called by the controller
mint(to, amount) ==
  /\ Live
  /\ mints < MaxMints
  /\ mints' = mints + 1
  /\ musdtBalance' = [musdtBalance EXCEPT ![to] = Add(@, Minted(amount))]
  /\ totalSupply' = Add(totalSupply, Minted(amount))
  /\ UNCHANGED <<now, stakes, nextHandle, acl, publicValues, ethBalance, received, deposited,
                 operators, controller, stakingContract, lastCall, frame, returned,
                 lastOk, earned, claimed, calls, peerCalls, ticks>>

\* ERC7984.setOperator(staking, expiry), called by the user
setOperator(u) ==
  /\ Live
  /\ u \notin operators
  /\ operators' = operators \cup {u}
  /\ UNCHANGED <<now, ledgerVars, controller, stakingContract, lastCall, frame,
                 returned, lastOk, earned, claimed, calls, peerCalls, ticks, mints>>

\* a later block: block.timestamp grows by d
AdvanceTime(d) ==
  /\ Live
  /\ ticks < MaxTicks
  /\ ticks' = ticks + 1
  /\ now' = now + d
  /\ UNCHANGED <<ledgerVars, operators, controller, stakingContract, lastCall,
                 frame, returned, lastOk, earned, claimed, calls, peerCalls, mints>>

Next ==
  \/ \E u \in Users, value \in EthAmounts : stakeEth(u, value)
  \/ \E u \in Users, amount \in MusdtAmounts, proofValid \in BOOLEAN :
       stakeMusdt(u, amount, proofValid)
  \/ \E u \in Users, amount \in WithdrawAmounts :
       \E pair \in WithdrawProofs(u) : withdrawEth(u, amount, pair)
  \/ \E accepts \in BOOLEAN : call(accepts)
  \/ \E u \in Users : claimRewards(u)
  \/ mintEncrypted(STAKING, lastCall.user, lastCall.amount)
  \/ \E u \in Users : syncRewards(u)
  \/ \E user \in Users : getPosition(user)
  \/ \E sender \in TokenCallers, to \in TokenUsers, amount \in MintAmounts :
       mintEncrypted(sender, to, amount)
  \/ \E sender \in Admins, newController \in NewControllers :
       setController(sender, newController)
  \/ \E sender \in Admins, newStakingContract \in NewStakingContracts :
       setStakingContract(sender, newStakingContract)
  \/ \E to \in TokenUsers, amount \in MintAmounts : mint(to, amount)
  \/ \E u \in TokenUsers : setOperator(u)
  \/ \E d \in TimeSteps : AdvanceTime(d)

Spec ==
  Init /\ [][Next]_vars

(***************************************************************************)
(* Properties                                                              *)
(***************************************************************************)
\* the position of the caller of the last call, as it is now
Post ==
  stakes[lastCall.user]

Succeeded(op) ==
  lastCall.op = op /\ lastCall.ok

Failed(op, error) ==
  lastCall.op = op /\ ~lastCall.ok /\ lastCall.error = error

\* the last call left the caller's position and the native asset as they were
NothingMoved ==
  Post = lastCall.pre /\ lastCall.sent = Zero

\* the pair of the last withdrawEth is the service's answer for this handle
Attests(handle) ==
  /\ lastCall.proof.handles = <<handle>>
  /\ lastCall.proof.clear = lastCall.clear

\* C1 as stated: withdrawEth succeeds only with a pair that attests the handle
\* stored in the caller's ethStake at the call; with a pair for any other
\* handle the call fails with ProofVerificationFailed, nothing is transferred
\* and the position is unchanged.
C1_StaleProofFailsVerification ==
  lastCall.op = "withdrawEth" =>
    LET live == lastCall.pre.ethStake
    IN  /\ lastCall.ok => Attests(live.h) /\ AbiDecode(lastCall.clear) = live.v
        /\ lastCall.proof.handles # <<live.h>> =>
             /\ Failed("withdrawEth", "ProofVerificationFailed")
             /\ NothingMoved

\* C1 as amended: withdrawEth succeeds only with a pair that attests the handle
\* stored in the caller's ethStake at the call; with a pair for any other
\* handle the call fails, nothing is transferred and the position is
\* unchanged; the failure is InvalidAmount when the amount is 0 or ethStake is
\* uninitialized, both checked before the proof, and ProofVerificationFailed
\* otherwise.
C1_ProofBoundToLiveHandle ==
  lastCall.op = "withdrawEth" =>
    LET live == lastCall.pre.ethStake
    IN  /\ lastCall.ok => Attests(live.h) /\ AbiDecode(lastCall.clear) = live.v
        /\ lastCall.proof.handles # <<live.h>> =>
             /\ ~lastCall.ok
             /\ NothingMoved
             /\ lastCall.error =
                  IF lastCall.amount = Zero \/ ~isInitialized(live)
                  THEN "InvalidAmount" ELSE "ProofVerificationFailed"

\* a withdrawal of half an ether against two staked ethers is refused because
\* the pair attests the handle of the first ether, replaced by the second stakeEth
C1_Witness ==
  /\ Failed("withdrawEth", "ProofVerificationFailed")
  /\ lastCall.prev = [op |-> "stakeEth", user |-> lastCall.user, time |-> lastCall.time]
  /\ lastCall.pre.ethStake.v = Add(ONE_ETHER, ONE_ETHER)
  /\ lastCall.clear = AbiEncode(ONE_ETHER)
  /\ lastCall.proof = KmsProof([h |-> lastCall.proof.handles[1], v |-> ONE_ETHER])
  /\ lastCall.proof.handles[1] # 0
  /\ lastCall.amount = HALF_ETHER

\* C2: withdrawEth of more than the attested plaintext of ethStake fails with
\* InvalidAmount and leaves ethStake and lastUpdated as before the call, the
\* accrual of the call included.
C2_WithdrawAboveStakeRejected ==
  (/\ lastCall.op = "withdrawEth"
   /\ isInitialized(lastCall.pre.ethStake)
   /\ Attests(lastCall.pre.ethStake.h)
   /\ Less(AbiDecode(lastCall.clear), lastCall.amount))
  => /\ Failed("withdrawEth", "InvalidAmount")
     /\ Post.ethStake = lastCall.pre.ethStake
     /\ Post.lastUpdated = lastCall.pre.lastUpdated
     /\ Post.pendingRewards = lastCall.pre.pendingRewards
     /\ lastCall.sent = Zero

\* one ether is asked of half an ether a day after the last checkpoint: the
\* accrual the call made is gone with it
C2_Witness ==
  /\ Failed("withdrawEth", "InvalidAmount")
  /\ Attests(lastCall.pre.ethStake.h)
  /\ lastCall.pre.ethStake.v = HALF_ETHER
  /\ lastCall.amount = ONE_ETHER
  /\ lastCall.mid.lastUpdated = lastCall.time
  /\ lastCall.mid.pendingRewards # lastCall.pre.pendingRewards
  /\ Post = lastCall.pre

\* C3: after a successful withdrawEth of a against the attested stake s,
\* 0 < a <= s, ethStake is initialized with plaintext s - a and exactly a is
\* transferred to the caller.
C3_WithdrawSubtracts ==
  Succeeded("withdrawEth") =>
    LET s == AbiDecode(lastCall.clear)
        a == lastCall.amount
    IN  /\ a # Zero /\ Leq(a, s)
        /\ isInitialized(Post.ethStake)
        /\ Post.ethStake.h # lastCall.pre.ethStake.h
        /\ Post.ethStake.v = Sub(s, a)
        /\ lastCall.sent = a
        /\ Leq(a, received[lastCall.user])

C3_Witness ==
  /\ Succeeded("withdrawEth")
  /\ lastCall.pre.ethStake.v = ONE_ETHER
  /\ lastCall.amount = HALF_ETHER
  /\ Post.ethStake.v = HALF_ETHER

\* C4: after a successful claimRewards pendingRewards is an initialized zero
\* and the caller's mUSDT balance has grown by exactly the plaintext P that
\* pendingRewards had after the accrual of the call, for every 128-bit P.
C4_ClaimMintsPending ==
  Succeeded("claimRewards") =>
    /\ isInitialized(Post.pendingRewards)
    /\ Post.pendingRewards.v = Zero
    /\ lastCall.minted = lastCall.mid.pendingRewards.v

\* the seconds since the caller's last checkpoint at the last call
SinceCheckpoint ==
  lastCall.time - lastCall.pre.lastUpdated

\* C5: one ether staked, no mUSDT staked, nothing pending: syncRewards exactly
\* 86,400 seconds after the last checkpoint leaves pendingRewards at 1,000,000.
C5_OneEtherOneDay ==
  (/\ Succeeded("syncRewards")
   /\ lastCall.pre.ethStake.v = ONE_ETHER
   /\ lastCall.pre.musdtStake.v = Zero
   /\ lastCall.pre.pendingRewards.v = Zero
   /\ SinceCheckpoint = 86400)
  => Post.pendingRewards.v = FromInt(1000000)

\* C6: 1,000,000 base units of mUSDT staked, no ether staked, nothing pending:
\* syncRewards exactly 86,400 seconds after the last checkpoint leaves
\* pendingRewards at 10,000.
C6_OnePercentOneDay ==
  (/\ Succeeded("syncRewards")
   /\ lastCall.pre.musdtStake.v = FromInt(1000000)
   /\ lastCall.pre.ethStake.v = Zero
   /\ lastCall.pre.pendingRewards.v = Zero
   /\ SinceCheckpoint = 86400)
  => Post.pendingRewards.v = FromInt(10000)

\* floor(floor(eth * e / 86400) / 10^12) + floor(musdt * e / (86400 * 100))
\* in exact integer arithmetic
ExactInterest(info, e) ==
  Add(DivSmall(DivSmall(DivSmall(MulSmall(info.ethStake.v, e), 86400), 1000000), 1000000),
      DivSmall(MulSmall(info.musdtStake.v, e), 8640000))

\* x mod 2^128
Wrap128(x) ==
  LowBytes(x, 16)

\* the same with both products and the sum taken modulo 2^128
WrappedInterest(info, e) ==
  Wrap128(Add(DivSmall(DivSmall(DivSmall(Wrap128(MulSmall(info.ethStake.v, e)), 86400),
                                1000000), 1000000),
              DivSmall(Wrap128(MulSmall(info.musdtStake.v, e)), 8640000)))

\* the last call succeeded and its accrual ran d >= 2 seconds after the checkpoint
AccruedLate ==
  /\ lastCall.op # "none"
  /\ lastCall.ok
  /\ lastCall.pre.lastUpdated # 0
  /\ SinceCheckpoint >= 2

MutatingCalls ==
  {"stakeEth", "stakeMusdt", "syncRewards", "claimRewards", "withdrawEth"}

SyncOneSecondLate ==
  /\ lastCall.op = "syncRewards"
  /\ lastCall.pre.lastUpdated # 0
  /\ SinceCheckpoint = 1

SecondSync ==
  /\ Succeeded("syncRewards")
  /\ lastCall.prev = [op |-> "syncRewards", user |-> lastCall.user, time |-> lastCall.time]

\* C9: the second of two syncRewards of a user at one timestamp leaves
\* pendingRewards (handle and plaintext) and lastUpdated as the first left them.
C9_SecondSyncChangesNothing ==
  SecondSync =>
    /\ Post.pendingRewards = lastCall.pre.pendingRewards
    /\ Post.lastUpdated = lastCall.pre.lastUpdated

\* the first of the two added interest
C9_Witness ==
  /\ SecondSync
  /\ lastCall.pre.lastUpdated = lastCall.time
  /\ lastCall.pre.pendingRewards.v # Zero

\* C10: a successful mutating call on a position with lastUpdated = 0 ends
\* with lastUpdated = now and adds no interest: pendingRewards stays
\* uninitialized.
C10_Bootstrap ==
  (lastCall.op \in MutatingCalls /\ lastCall.ok /\ lastCall.pre.lastUpdated = 0) =>
    /\ Post.lastUpdated = lastCall.time
    /\ Post.pendingRewards = lastCall.pre.pendingRewards
    /\ ~isInitialized(Post.pendingRewards)

\* the first call of a user comes after time has passed and brings a stake
C10_Witness ==
  /\ Succeeded("stakeMusdt")
  /\ lastCall.pre = EmptyStake
  /\ lastCall.time > StartTime
  /\ Post.musdtStake.v # Zero

PositionValues ==
  {"ethStake", "musdtStake", "pendingRewards"}

\* the ledger contract and the user may decrypt the value, and it is marked
\* publicly decryptable
Shared(value, user) ==
  /\ <<value.h, STAKING>> \in acl
  /\ <<value.h, user>> \in acl
  /\ value \in publicValues

\* C12: in every reachable state every initialized value stored in a user's
\* position (ethStake, musdtStake, pendingRewards) has a decrypt grant for the
\* ledger contract and for that user and is marked publicly decryptable.
C12_StoredValuesShared ==
  \A u \in Users : \A f \in PositionValues :
    isInitialized(stakes[u][f]) => Shared(stakes[u][f], u)

\* a position with both stakes and credited interest
C12_Witness ==
  \E u \in Users :
    /\ \A f \in PositionValues : isInitialized(stakes[u][f])
    /\ stakes[u].ethStake.v # Zero
    /\ stakes[u].musdtStake.v # Zero
    /\ stakes[u].pendingRewards.v # Zero

\* what a call can write apart from the record of itself
Written ==
  <<stakes, nextHandle, acl, publicValues, ethBalance, received, deposited, musdtBalance,
    totalSupply, operators, controller, stakingContract>>

\* C13: a withdrawEth whose transfer to the caller fails ends with
\* TransferFailed and with the position, the grants and the balances exactly
\* as before the call; and so does every call that fails, at whatever step:
\* a call that fails before it calls out changes nothing, a call that goes out
\* has the state before it in its frame and moves no balance, and a call that
\* fails in its callee puts back what the frame holds.
C13_FailureChangesNothing ==
  /\ [](lastCall.op = "withdrawEth" /\ ~lastCall.ok => NothingMoved)
  /\ [][frame'.op # "none" =>
          /\ frame' = [op |-> frame'.op, stakes |-> stakes,
                       nextHandle |-> nextHandle, acl |-> acl,
                       publicValues |-> publicValues]
          /\ UNCHANGED <<ethBalance, received, deposited, musdtBalance, totalSupply,
                         operators, controller, stakingContract>>]_vars
  /\ [][~lastCall'.ok =>
          IF frame.op = "none"
          THEN UNCHANGED Written
          ELSE /\ stakes' = frame.stakes
               /\ nextHandle' = frame.nextHandle
               /\ acl' = frame.acl
               /\ publicValues' = frame.publicValues
               /\ UNCHANGED <<ethBalance, received, deposited, musdtBalance, totalSupply,
                              operators, controller, stakingContract>>]_vars

\* the recipient refuses the ether of a withdrawal that had credited interest,
\* stamped the position and granted the new values
C13_Witness ==
  /\ Failed("withdrawEth", "TransferFailed")
  /\ lastCall.mid.pendingRewards # lastCall.pre.pendingRewards
  /\ lastCall.mid.lastUpdated # lastCall.pre.lastUpdated
  /\ Post = lastCall.pre
  /\ <<lastCall.mid.pendingRewards.h, lastCall.user>> \notin acl
  /\ Leq(lastCall.amount, ethBalance)

\* the positions before the transaction that this step belongs to
StakesBefore ==
  IF frame.op = "none" THEN stakes ELSE frame.stakes

\* this step ends a successful mutating call of u
SucceedsFor(u) ==
  /\ calls' = calls + 1
  /\ lastCall'.ok
  /\ lastCall'.op \in MutatingCalls
  /\ lastCall'.user = u

\* C14: lastUpdated of a position is 0 exactly when no mutating call of its
\* user has succeeded, and it never decreases: it is 0 at the start, a
\* transaction leaves it non-zero exactly if it was non-zero before or the
\* transaction is a successful mutating call of that user, and no transaction
\* leaves it lower than it was.
C14_TouchedAndMonotone ==
  /\ \A u \in Users : stakes[u].lastUpdated = 0
  /\ [][frame'.op = "none" =>
          \A u \in Users :
            /\ stakes'[u].lastUpdated # 0
                 <=> (StakesBefore[u].lastUpdated # 0 \/ SucceedsFor(u))
            /\ stakes'[u].lastUpdated >= StakesBefore[u].lastUpdated]_vars

\* a claim of a user who never had a successful call fails after its accrual
\* had stamped the position, while another user's checkpoint lies in the past
C14_Witness ==
  /\ Failed("claimRewards", "NoRewardsAvailable")
  /\ lastCall.mid.lastUpdated = now
  /\ Post.lastUpdated = 0
  /\ \E u \in Users : stakes[u].lastUpdated # 0 /\ stakes[u].lastUpdated < now

\* x mod 2^64
Wrap64(x) ==
  LowBytes(x, 8)

\* claimRewards has called the token and the token has not answered yet
Minting ==
  frame.op = "claimRewards"

\* C15: in claimRewards the reset of pendingRewards to an initialized zero
\* precedes the mint. When the token is called the stored pendingRewards is
\* already a fresh zero and the checkpoint is stamped, the value handed to the
\* token is the one captured from pendingRewards before the reset, no balance
\* has moved before that call, and the mint that ends a successful claim
\* credits the caller with that value and leaves the position alone.
C15_ResetBeforeMint ==
  /\ [](Minting =>
          LET info == stakes[lastCall.user]
          IN  /\ isInitialized(info.pendingRewards)
              /\ info.pendingRewards.v = Zero
              /\ info.pendingRewards.h # lastCall.mid.pendingRewards.h
              /\ info.lastUpdated = now
              /\ isInitialized(lastCall.mid.pendingRewards)
              /\ lastCall.amount = Wrap64(lastCall.mid.pendingRewards.v))
  /\ [][(frame'.op = "claimRewards" /\ frame.op = "none") =>
          UNCHANGED <<musdtBalance, totalSupply>>]_vars
  /\ [][(lastCall'.op = "claimRewards" /\ lastCall'.ok /\ calls' = calls + 1) =>
          /\ Minting
          /\ UNCHANGED stakes
          /\ lastCall'.minted \in {lastCall.amount, Zero}
          /\ lastCall'.minted = Zero =>
               lastCall.amount = Zero \/ Leq(TWO64, Add(totalSupply, lastCall.amount))
          /\ musdtBalance' =
               [musdtBalance EXCEPT ![lastCall.user] = Add(@, lastCall'.minted)]]_vars

\* the token is called with a day's interest while nothing is minted yet
C15_Witness ==
  /\ Minting
  /\ lastCall.amount = FromInt(999988)
  /\ lastCall.mid.pendingRewards.v = lastCall.amount
  /\ stakes[lastCall.user].pendingRewards.v = Zero
  /\ musdtBalance[lastCall.user] = Zero

\* C16: a claimRewards whose position has no initialized pendingRewards after
\* the accrual fails with NoRewardsAvailable and leaves the position as it
\* was, lastUpdated included, even where the accrual had stamped it; the
\* claim goes on to the token only with initialized rewards.
C16_NothingToClaim ==
  /\ (lastCall.op \in {"claimRewards", "claimRewards.mintEncrypted"}
        /\ ~isInitialized(lastCall.mid.pendingRewards)) =>
       /\ Failed("claimRewards", "NoRewardsAvailable")
       /\ Post = lastCall.pre
       /\ Post.lastUpdated = lastCall.pre.lastUpdated
       /\ lastCall.minted = Zero
  /\ Failed("claimRewards", "NoRewardsAvailable") =>
       ~isInitialized(lastCall.mid.pendingRewards)

\* a holder of a reward-token stake only claims a while after the deposit
C16_Witness ==
  /\ Failed("claimRewards", "NoRewardsAvailable")
  /\ isInitialized(lastCall.pre.musdtStake)
  /\ ~isInitialized(lastCall.pre.ethStake)
  /\ ~isInitialized(lastCall.mid.pendingRewards)
  /\ lastCall.pre.lastUpdated # 0
  /\ lastCall.pre.lastUpdated < now
  /\ Post = lastCall.pre

\* C17: stakeEth with a value of zero or above 2^128 - 1 fails with
\* InvalidAmount before any accrual and leaves the position and the balances
\* as they were, and it fails so for no other value; a deposit that succeeds
\* is taken and credited with the value sent, never with a smaller one.
C17_InvalidDepositRejected ==
  /\ (lastCall.op = "stakeEth"
        /\ (lastCall.amount = Zero \/ Leq(TWO128, lastCall.amount))) =>
       /\ Failed("stakeEth", "InvalidAmount")
       /\ lastCall.mid = lastCall.pre
       /\ NothingMoved
  /\ Failed("stakeEth", "InvalidAmount") =>
       (lastCall.amount = Zero \/ Leq(TWO128, lastCall.amount))
  /\ Succeeded("stakeEth") =>
       /\ lastCall.amount # Zero
       /\ Leq(lastCall.amount, UINT128_MAX)
       /\ Post.ethStake.v =
            IF isInitialized(lastCall.mid.ethStake)
            THEN Wrap128(Add(lastCall.mid.ethStake.v, lastCall.amount))
            ELSE lastCall.amount

\* a deposit of 2^128 is refused on a position that had interest to accrue
C17_Witness ==
  /\ Failed("stakeEth", "InvalidAmount")
  /\ lastCall.amount = TWO128
  /\ isInitialized(lastCall.pre.ethStake)
  /\ lastCall.pre.lastUpdated # 0
  /\ lastCall.pre.lastUpdated + 1 < now
  /\ Post = lastCall.pre

\* C18: a successful stakeMusdt raises musdtStake by exactly the amount the
\* token moved from the caller to the ledger, which is the requested amount
\* when the caller's balance covers it and zero otherwise; when the two differ
\* the stake does not rise by the requested amount.
C18_StakeFollowsTransfer ==
  [][(lastCall'.op = "stakeMusdt" /\ lastCall'.ok /\ calls' = calls + 1) =>
       LET u      == lastCall'.user
           amount == lastCall'.amount
           before == stakes[u].musdtStake
           moved  == Sub(musdtBalance'[STAKING], musdtBalance[STAKING])
       IN  /\ Leq(musdtBalance[STAKING], musdtBalance'[STAKING])
           /\ Add(musdtBalance'[u], moved) = musdtBalance[u]
           /\ moved = IF Leq(amount, musdtBalance[u]) THEN amount ELSE Zero
           /\ isInitialized(stakes'[u].musdtStake)
           /\ stakes'[u].musdtStake.v =
                IF isInitialized(before)
                THEN Wrap128(Add(before.v, moved))
                ELSE moved
           /\ moved # amount =>
                stakes'[u].musdtStake.v #
                  (IF isInitialized(before) THEN Wrap128(Add(before.v, amount))
                                            ELSE amount)]_vars

\* three mUSDT were asked of a balance of two: the stake stays at one
C18_Witness ==
  /\ Succeeded("stakeMusdt")
  /\ lastCall.amount = FromInt(3 * ONE_MUSDT)
  /\ isInitialized(lastCall.pre.musdtStake)
  /\ lastCall.pre.musdtStake.v = FromInt(ONE_MUSDT)
  /\ Post.musdtStake.v = FromInt(ONE_MUSDT)
  /\ Post.musdtStake.h # lastCall.pre.musdtStake.h
  /\ musdtBalance[lastCall.user] = FromInt(ONE_MUSDT)

\* the accounts the token lets mint
Minters ==
  {controller, stakingContract}

\* C19: mintEncrypted succeeds only for the current controller and the
\* registered staking contract. Called by any other account it fails with
\* Unauthorized and no balance and no supply changes; called by the ledger
\* inside claimRewards after the ledger was replaced as staking contract, its
\* failure fails the claim and the position is as before the claim.
C19_OnlyMintersMint ==
  /\ [][(lastCall'.op = "mintEncrypted" /\ lastCall' # lastCall) =>
          /\ lastCall'.ok <=> lastCall'.user \in Minters
          /\ ~lastCall'.ok =>
               /\ lastCall'.error = "Unauthorized"
               /\ UNCHANGED <<musdtBalance, totalSupply>>]_vars
  /\ [][Minting =>
          /\ lastCall'.op = "claimRewards"
          /\ lastCall'.ok <=> STAKING \in Minters
          /\ ~lastCall'.ok =>
               /\ lastCall'.error = "Unauthorized"
               /\ UNCHANGED <<musdtBalance, totalSupply>>
               /\ stakes' = frame.stakes]_vars
  /\ [][(musdtBalance' # musdtBalance /\ lastCall' # lastCall
            /\ lastCall'.op # "stakeMusdt") =>
          /\ lastCall'.op \in {"mintEncrypted", "claimRewards"}
          /\ lastCall'.ok]_vars

\* the ledger is no longer the staking contract and a claim of a day's
\* interest fails
C19_Witness ==
  /\ Failed("claimRewards", "Unauthorized")
  /\ STAKING \notin Minters
  /\ lastCall.amount = FromInt(999988)
  /\ musdtBalance[lastCall.user] = Zero
  /\ totalSupply = Zero
  /\ Post = lastCall.pre

\* C20: getPosition returns the four fields of the user's position exactly
\* as they are stored, handles included, and changes nothing: no accrual is
\* made, whatever the time and whoever the user.
C20_ViewReturnsStored ==
  /\ [](returned.op = "getPosition" =>
          LET info == stakes[returned.user]
          IN  /\ Len(returned.value) = 4
              /\ returned.value[1] = info.ethStake
              /\ returned.value[2] = info.musdtStake
              /\ returned.value[3] = info.pendingRewards
              /\ returned.value[4] = info.lastUpdated)
  /\ [][returned'.op = "getPosition" =>
          UNCHANGED <<stakes, nextHandle, acl, publicValues, ethBalance, received, deposited,
                      musdtBalance, totalSupply, now, lastCall, lastOk, earned, claimed>>]_vars

\* a position with a day's interest outstanding is read and reported without it
C20_Witness ==
  /\ returned.op = "getPosition"
  /\ isInitialized(returned.value[1])
  /\ returned.value[1].v = ONE_ETHER
  /\ ~isInitialized(returned.value[3])
  /\ returned.value[4] # 0
  /\ returned.value[4] + 1 < now
  /\ stakes[returned.user].lastUpdated = returned.value[4]

\* C21: syncRewards leaves the caller's ethStake and musdtStake, handles and
\* plaintexts, the positions of the other users, the ledger's native balance
\* and every reward-token balance as they were; of the caller's position only
\* pendingRewards and lastUpdated can change, and the value returned is the
\* pendingRewards stored after the accrual.  It never fails.
C21_SyncFrame ==
  /\ [][(lastCall'.op = "syncRewards" /\ calls' = calls + 1) =>
          LET u == lastCall'.user
          IN  /\ lastCall'.ok
              /\ stakes'[u].ethStake = stakes[u].ethStake
              /\ stakes'[u].musdtStake = stakes[u].musdtStake
              /\ \A w \in Users \ {u} : stakes'[w] = stakes[w]
              /\ UNCHANGED <<ethBalance, received, deposited, musdtBalance, totalSupply>>
              /\ lastCall'.ret = stakes'[u].pendingRewards]_vars
  /\ [](lastCall.op = "syncRewards" => lastCall.ret = Post.pendingRewards)

\* a sync a day after a deposit of one ether returns the new rewards
C21_Witness ==
  /\ Succeeded("syncRewards")
  /\ Post.ethStake.v = ONE_ETHER
  /\ ~isInitialized(lastCall.pre.pendingRewards)
  /\ isInitialized(lastCall.ret)
  /\ lastCall.ret.v = FromInt(999988)
  /\ lastCall.ret = Post.pendingRewards
  /\ Post.lastUpdated = now
  /\ ethBalance = ONE_ETHER

\* a value without its handle
Plain(c) ==
  [initialized |-> isInitialized(c), v |-> c.v]

\* a position without its handles
PlainPosition(info) ==
  [ethStake |-> Plain(info.ethStake), musdtStake |-> Plain(info.musdtStake),
   pendingRewards |-> Plain(info.pendingRewards), lastUpdated |-> info.lastUpdated]

\* how a call of w ends when made in the current state
Outcome(w, error, info) ==
  [error |-> error,
   position |-> PlainPosition(IF error = "" THEN info ELSE stakes[w])]

\* what each call w can make does to the position of w: n handles are given
\* out, the token moves moved[x] when asked for x, the transfer of x to w
\* goes through if sent[x], and proofs are the decryption proofs w can supply
Outcomes(w, n, moved, sent, proofs) ==
  [stakeEth |->
     [value \in EthAmounts |->
        LET r == stakeEthResult(w, value, n) IN Outcome(w, r.error, r.info)],
   stakeMusdt |->
     [x \in MusdtAmounts \X BOOLEAN |->
        LET r == stakeMusdtResult(w, x[1], x[2], moved[x[1]], n)
        IN  Outcome(w, r.error, r.info)],
   withdrawEth |->
     [x \in WithdrawAmounts \X proofs |->
        LET r == withdrawEthResult(w, x[1], x[2], n)
        IN  Outcome(w, IF r.error = "" /\ ~sent[x[1]]
                       THEN "TransferFailed" ELSE r.error, r.info)],
   claimRewards |->
     LET r == claimRewardsResult(w, n)
     IN  Outcome(w, IF r.error = "" /\ STAKING \notin Minters
                    THEN "Unauthorized" ELSE r.error, r.info),
   syncRewards |->
     Outcome(w, "", accrue(w, stakes[w], now, n).info)]

\* what the token moves from w for each amount asked
Moves(w) ==
  [x \in MusdtAmounts |-> Transferred(w, x)]

\* whether a transfer of each amount to a willing recipient goes through
Sends ==
  [x \in WithdrawAmounts |-> Sent(x, TRUE)]

\* the names a call of the staking contract is recorded under
StakingOps ==
  {"stakeEth", "stakeMusdt", "withdrawEth", "withdrawEth.call", "claimRewards",
   "claimRewards.mintEncrypted", "syncRewards"}

\* C22: a call of the ledger by one user, whether it succeeds or fails and at
\* each of its steps, changes no field of the position of another user, and
\* it changes nothing of what any call of another user would do to that
\* user's position at the same timestamp: the clock, the operators and the
\* minters stay, and with the handles, the token balances and the native
\* balance the call leaves behind the other's call ends the same way, with
\* the same position, as before it.  Two calls by different users at one
\* timestamp therefore leave the same two positions in either order.
C22_PositionsDisjoint ==
  [][(lastCall' # lastCall /\ lastCall'.op \in StakingOps) =>
       \A w \in Users \ {lastCall'.user} :
         /\ stakes'[w] = stakes[w]
         /\ UNCHANGED <<now, operators, controller, stakingContract>>
         /\ \/ UNCHANGED <<nextHandle, musdtBalance, ethBalance>>
            \/ Outcomes(w, nextHandle', Moves(w)', Sends', WithdrawProofs(w))
                 = Outcomes(w, nextHandle, Moves(w), Sends, WithdrawProofs(w))]_vars

\* both users hold a stake and the second of them to call has just deposited
C22_Witness ==
  /\ Succeeded("stakeEth")
  /\ lastCall.prev.op = "stakeEth"
  /\ lastCall.prev.user # lastCall.user
  /\ lastCall.prev.time = now
  /\ \A w \in Users : stakes[w].ethStake.v = ONE_ETHER
  /\ \A w \in Users : stakes[w].lastUpdated = now

\* the last call ran an accrual, at least two seconds after the checkpoint,
\* on a position that never held a stake or rewards
AccruedWithoutStake ==
  /\ lastCall.op \in {"syncRewards", "claimRewards", "claimRewards.mintEncrypted"}
  /\ ~isInitialized(lastCall.pre.ethStake)
  /\ ~isInitialized(lastCall.pre.musdtStake)
  /\ ~isInitialized(lastCall.pre.pendingRewards)
  /\ lastCall.pre.lastUpdated # 0
  /\ lastCall.pre.lastUpdated + 2 =< lastCall.time

\* C23: an accrual on a position whose stakes are both uninitialized and whose
\* checkpoint is at least two seconds old leaves pendingRewards uninitialized
\* and sets lastUpdated to the current timestamp.
C23_EmptyAccrualSkipsUpdate ==
  AccruedWithoutStake =>
    /\ ~isInitialized(lastCall.mid.pendingRewards)
    /\ lastCall.mid.lastUpdated = lastCall.time

\* withdrawEth has called the caller's account and the call has not returned
Transferring ==
  frame.op = "withdrawEth"

\* a call of withdrawEth the recipient makes from inside the transfer
Reentered(x, pair) ==
  withdrawEthResult(lastCall.user, x, pair, nextHandle)

\* C24: when withdrawEth makes the native transfer the caller's ethStake is
\* already reduced by the amount under a new handle, shared with the ledger
\* and the caller and made public, and lastUpdated is stamped, while nothing
\* has left the ledger yet.  A withdrawEth the recipient makes from inside the
\* transfer sees that position: it gets through only with a proof for the
\* new handle and an amount within what is left, and the proof of the
\* withdrawal in progress is refused.
C24_ReducedBeforeTransfer ==
  Transferring =>
    LET u      == lastCall.user
        info   == stakes[u]
        before == lastCall.mid.ethStake
    IN  /\ isInitialized(info.ethStake)
        /\ info.ethStake.h # before.h
        /\ Add(info.ethStake.v, lastCall.amount) = before.v
        /\ Shared(info.ethStake, u)
        /\ info.lastUpdated = now
        /\ getPositionResult(u)[1] = info.ethStake
        /\ lastCall.sent = Zero
        /\ Leq(before.v, ethBalance)
        /\ \A x \in WithdrawAmounts, pair \in WithdrawProofs(u) :
             Reentered(x, pair).error = "" =>
               /\ pair.proof.handles = <<info.ethStake.h>>
               /\ Leq(x, info.ethStake.v)
               /\ Leq(Add(lastCall.amount, x), before.v)
        /\ \A x \in WithdrawAmounts \ {Zero} :
             Reentered(x, [clear |-> lastCall.clear, proof |-> lastCall.proof]).error
               = "ProofVerificationFailed"

\* half of one ether is on its way out: from inside the transfer the other
\* half can be withdrawn with a proof for the new handle, a whole ether cannot
C24_Witness ==
  /\ Transferring
  /\ lastCall.amount = HALF_ETHER
  /\ lastCall.mid.ethStake.v = ONE_ETHER
  /\ stakes[lastCall.user].ethStake.v = HALF_ETHER
  /\ ethBalance = ONE_ETHER
  /\ \E pair \in WithdrawProofs(lastCall.user) :
       Reentered(HALF_ETHER, pair).error = ""
  /\ \A pair \in WithdrawProofs(lastCall.user) :
       Reentered(ONE_ETHER, pair).error # ""

\* the last call is a deposit or a withdrawal that got through its checks
StakeChanged ==
  /\ lastCall.op \in {"stakeEth", "stakeMusdt", "withdrawEth", "withdrawEth.call"}
  /\ lastCall.ok

\* C25: stakeEth, stakeMusdt and withdrawEth accrue before they change the
\* stake.  The interest the call credits is that of the stakes held before
\* the call for the seconds since the checkpoint (none when the position is
\* new or the checkpoint less than two seconds old); the accrual leaves the
\* stakes alone and the change of the stake leaves pendingRewards alone.  A
\* deposit so earns nothing for the time before it and a withdrawn amount
\* earns up to the withdrawal.
C25_AccrualBeforeStakeChange ==
  StakeChanged =>
    LET old      == lastCall.pre.pendingRewards
        credited == Post.pendingRewards
        interest == WrappedInterest(lastCall.pre, SinceCheckpoint - 1)
    IN  /\ lastCall.mid.ethStake = lastCall.pre.ethStake
        /\ lastCall.mid.musdtStake = lastCall.pre.musdtStake
        /\ credited = lastCall.mid.pendingRewards
        /\ IF lastCall.pre.lastUpdated # 0 /\ SinceCheckpoint >= 2
           THEN /\ isInitialized(credited)
                /\ credited.v = IF isInitialized(old)
                                THEN Wrap128(Add(old.v, interest))
                                ELSE interest
           ELSE credited = old

\* a day after the deposit of one ether the whole of it is withdrawn and has
\* earned the day's interest
C25_Witness ==
  /\ Succeeded("withdrawEth")
  /\ lastCall.amount = ONE_ETHER
  /\ lastCall.pre.ethStake.v = ONE_ETHER
  /\ SinceCheckpoint = SECONDS_PER_DAY
  /\ Post.ethStake.v = Zero
  /\ ~isInitialized(lastCall.pre.pendingRewards)
  /\ Post.pendingRewards.v = FromInt(999988)

\* C26: a withdrawEth of amount zero, or by a caller whose ethStake is
\* uninitialized, fails with InvalidAmount whatever proof comes with it:
\* nothing is transferred and the position is as before.  The zero amount is
\* refused before the accrual.
C26_NothingToWithdraw ==
  (/\ lastCall.op \in {"withdrawEth", "withdrawEth.call"}
   /\ lastCall.amount = Zero \/ ~isInitialized(lastCall.pre.ethStake)) =>
    /\ Failed("withdrawEth", "InvalidAmount")
    /\ NothingMoved
    /\ lastCall.amount = Zero => lastCall.mid = lastCall.pre

\* the ledger holds another user's ether and a user without a stake asks for
\* one ether with a signed answer
C26_Witness ==
  /\ Failed("withdrawEth", "InvalidAmount")
  /\ lastCall.amount = ONE_ETHER
  /\ ~isInitialized(lastCall.pre.ethStake)
  /\ lastCall.proof.handles # <<>>
  /\ AbiDecode(lastCall.clear) = ONE_ETHER
  /\ ethBalance = ONE_ETHER
  /\ Post = lastCall.pre

\* the last call is a withdrawEth of a positive amount, with the service's
\* answer for the live handle, from a stake that is initialized and zero
AsksOfEmptyStake ==
  /\ lastCall.op \in {"withdrawEth", "withdrawEth.call"}
  /\ lastCall.amount # Zero
  /\ isInitialized(lastCall.mid.ethStake)
  /\ lastCall.mid.ethStake.v = Zero
  /\ Attests(lastCall.mid.ethStake.h)
  /\ AbiDecode(lastCall.clear) = Zero

\* C27: a withdrawEth of the whole stake leaves ethStake an initialized value
\* with plaintext zero and lastUpdated at the time of the call; an ethStake,
\* once initialized, stays initialized and a lastUpdated, once set, stays set;
\* and a withdrawEth of a positive amount from an initialized zero stake, with
\* a valid proof for it, fails with InvalidAmount and moves nothing.
C27_EmptiedStakeStays ==
  /\ []((Succeeded("withdrawEth") /\ lastCall.amount = lastCall.mid.ethStake.v) =>
          /\ isInitialized(Post.ethStake)
          /\ Post.ethStake.v = Zero
          /\ Post.lastUpdated = lastCall.time
          /\ Post.lastUpdated # 0)
  /\ [][\A u \in Users :
          /\ isInitialized(stakes[u].ethStake) => isInitialized(stakes'[u].ethStake)
          /\ stakes[u].lastUpdated # 0 => stakes'[u].lastUpdated # 0]_vars
  /\ [](AsksOfEmptyStake =>
          /\ Failed("withdrawEth", "InvalidAmount")
          /\ NothingMoved)

\* the user who withdrew the one ether staked asks for half an ether more
C27_Witness ==
  /\ AsksOfEmptyStake
  /\ Failed("withdrawEth", "InvalidAmount")
  /\ lastCall.prev.op = "withdrawEth"
  /\ lastCall.prev.user = lastCall.user
  /\ lastCall.amount = HALF_ETHER
  /\ received[lastCall.user] = ONE_ETHER
  /\ Post.lastUpdated # 0
  /\ Post = lastCall.pre

\* the sum of the users' ethStake plaintexts
RECURSIVE SumOfStakes(_)
SumOfStakes(S) ==
  IF S = {} THEN Zero
  ELSE LET u == CHOOSE w \in S : TRUE
       IN  Add(stakes[u].ethStake.v, SumOfStakes(S \ {u}))

\* C28: between calls each user's ethStake plaintext is what the user paid in
\* with successful stakeEth calls less what successful withdrawEth calls paid
\* out, which is never more than was paid in, and the ledger's native balance
\* covers the sum of the users' ethStake plaintexts.
C28_StakeIsDepositsLessWithdrawals ==
  frame.op = "none" =>
    /\ \A u \in Users :
         /\ Leq(received[u], deposited[u])
         /\ stakes[u].ethStake.v = Sub(deposited[u], received[u])
    /\ Leq(SumOfStakes(Users), ethBalance)

\* seconds from an intermediate syncRewards to the end of the interval
SplitGaps == {1, 2, SECONDS_PER_DAY}

\* pendingRewards of a position after a syncRewards of user at time t
SyncedAt(user, info, t) ==
  accrue(user, info, t, nextHandle).info.pendingRewards

\* C29: with the stakes unchanged, a syncRewards between the checkpoint t0 and
\* t1 followed by a syncRewards at t1 never credits more in total than a
\* single syncRewards at t1 would have credited from the checkpoint t0.
C29_SplitNeverGains ==
  (Succeeded("syncRewards") /\ lastCall.pre.lastUpdated # 0) =>
    \A d \in SplitGaps :
      LET u      == lastCall.user
          t1     == lastCall.time + d
          first  == Credited(lastCall.pre.pendingRewards, Post.pendingRewards)
          second == Credited(Post.pendingRewards, SyncedAt(u, Post, t1))
          single == Credited(lastCall.pre.pendingRewards,
                             SyncedAt(u, lastCall.pre, t1))
      IN  Leq(Add(first, second), single)

\* C30: for every user the mUSDT minted through claimRewards never exceeds
\* the interest the accruals of the user's calls have credited to
\* pendingRewards; between calls, what was minted and what is still pending
\* together do not exceed it either, so no reward is claimed twice; and a
\* claim mints no more than was pending and leaves nothing pending.
C30_ClaimedWithinEarned ==
  /\ \A u \in Users : Leq(claimed[u], earned[u])
  /\ frame.op = "none" =>
       \A u \in Users : Leq(Add(claimed[u], stakes[u].pendingRewards.v), earned[u])
  /\ Succeeded("claimRewards") =>
       /\ Leq(lastCall.minted, lastCall.mid.pendingRewards.v)
       /\ Post.pendingRewards.v = Zero

\* two days of interest on one ether were claimed day by day
C30_Witness ==
  /\ Succeeded("claimRewards")
  /\ lastCall.prev.op = "claimRewards"
  /\ lastCall.prev.user = lastCall.user
  /\ lastCall.minted = FromInt(999988)
  /\ claimed[lastCall.user] = FromInt(2 * 999988)
  /\ earned[lastCall.user] = FromInt(2 * 999988)
  /\ musdtBalance[lastCall.user] = claimed[lastCall.user]

\* the encrypted fields of a position
EncryptedFields ==
  {"ethStake", "musdtStake", "pendingRewards"}

\* the ledger as the last finished transaction left it: what a call in
\* progress has written is not kept if the call reverts
SettledStakes ==
  IF frame.op = "none" THEN stakes ELSE frame.stakes

\* the call in progress reverts in this step
Reverting ==
  frame.op # "none" /\ frame'.op = "none" /\ ~lastCall'.ok

ClaimedBy(u) ==
  Succeeded("claimRewards") /\ lastCall.user = u

\* C31: an initialized ethStake, musdtStake or pendingRewards of a user is
\* never made uninitialized, neither by what a call writes nor from one
\* finished transaction to the next; and once claimRewards of a user has
\* succeeded, no later claimRewards of that user fails with
\* NoRewardsAvailable.
C31_InitializedStays ==
  /\ [][\A u \in Users : \A f \in EncryptedFields :
          /\ (isInitialized(stakes[u][f]) /\ ~Reverting)
                => isInitialized(stakes'[u][f])
          /\ isInitialized(SettledStakes[u][f])
                => isInitialized(SettledStakes'[u][f])]_vars
  /\ \A u \in Users :
       [](ClaimedBy(u) =>
            [](~(Failed("claimRewards", "NoRewardsAvailable") /\ lastCall.user = u)))

\* a second claim right after the first finds the rewards initialized and
\* mints zero
C31_Witness ==
  /\ Succeeded("claimRewards")
  /\ lastCall.prev.op = "claimRewards"
  /\ lastCall.prev.user = lastCall.user
  /\ lastCall.prev.time = lastCall.time
  /\ lastCall.pre.pendingRewards.v = Zero
  /\ isInitialized(lastCall.pre.pendingRewards)
  /\ lastCall.minted = Zero

\* the service's answer for the value c, as a caller hands it to withdrawEth
ProofFor(c) ==
  [clear |-> AbiEncode(c.v), proof |-> KmsProof(c)]

\* withdrawEth of user at time t, on the position info with n handles given
\* out, finds a stake and the pair passes FHE.checkSignatures
ProofAccepted(user, info, t, n, pair) ==
  LET a == accrue(user, info, t, n)
  IN  /\ ~NoStake(a.info)
      /\ checkSignatures(<<a.info.ethStake.h>>, pair.clear, pair.proof)

\* C32: the ethStake a user's position holds, handle and value, changes only
\* in that user's stakeEth or withdrawEth, and from one finished transaction
\* to the next only when such a call succeeded; syncRewards, claimRewards and
\* stakeMusdt of the user, the calls of other users and the passing of time
\* leave it as it is.  So the service's answer for the current ethStake
\* passes the verification of withdrawEth now and after every step that is
\* not a successful stakeEth or withdrawEth of the user.
C32_ProofStaysValid ==
  /\ [][\A u \in Users :
          /\ stakes'[u].ethStake # stakes[u].ethStake =>
                /\ lastCall'.user = u
                /\ lastCall'.op \in {"stakeEth", "withdrawEth.call", "withdrawEth"}
          /\ SettledStakes'[u].ethStake # SettledStakes[u].ethStake =>
                /\ lastCall'.user = u
                /\ lastCall'.ok
                /\ lastCall'.op \in {"stakeEth", "withdrawEth"}
          /\ ( /\ isInitialized(SettledStakes[u].ethStake)
               /\ frame'.op = "none"
               /\ ~( /\ lastCall' # lastCall
                     /\ lastCall'.user = u
                     /\ lastCall'.ok
                     /\ lastCall'.op \in {"stakeEth", "withdrawEth"} ) )
                => ProofAccepted(u, stakes'[u], now', nextHandle',
                                 ProofFor(SettledStakes[u].ethStake))]_vars
  /\ [](frame.op = "none" =>
         \A u \in Users :
           isInitialized(stakes[u].ethStake) =>
             \A amount \in WithdrawAmounts :
               withdrawEthResult(u, amount, ProofFor(stakes[u].ethStake),
                                 nextHandle).error
                 # "ProofVerificationFailed")

\* an ether staked, a day of interest synced, and a day later the withdrawal
\* goes through with the answer for the handle stakeEth had stored
C32_Witness ==
  /\ Succeeded("withdrawEth")
  /\ lastCall.prev.op = "syncRewards"
  /\ lastCall.prev.user = lastCall.user
  /\ lastCall.time = lastCall.prev.time + SECONDS_PER_DAY
  /\ lastCall.pre.ethStake.v = ONE_ETHER
  /\ lastCall.pre.pendingRewards.v # Zero
  /\ lastCall.mid.pendingRewards.v # lastCall.pre.pendingRewards.v
  /\ Attests(lastCall.pre.ethStake.h)
  /\ Less(FromInt(lastCall.pre.ethStake.h), FromInt(lastCall.pre.pendingRewards.h))

\* the sum of the users' musdtStake plaintexts
RECURSIVE SumOfMusdtStakes(_)
SumOfMusdtStakes(S) ==
  IF S = {} THEN Zero
  ELSE LET u == CHOOSE w \in S : TRUE
       IN  Add(stakes[u].musdtStake.v, SumOfMusdtStakes(S \ {u}))

\* C33: no step lowers the plaintext of a user's musdtStake, neither what a
\* call writes nor from one finished transaction to the next, and no step
\* lowers the ledger's mUSDT balance; the balance always covers the sum of the
\* users' musdtStake plaintexts.
C33_MusdtStakeNeverDecreases ==
  /\ [][/\ \A u \in Users :
            /\ ~Reverting => Leq(stakes[u].musdtStake.v, stakes'[u].musdtStake.v)
            /\ Leq(SettledStakes[u].musdtStake.v, SettledStakes'[u].musdtStake.v)
        /\ Leq(musdtBalance[STAKING], musdtBalance'[STAKING])]_vars
  /\ [](Leq(SumOfMusdtStakes(Users), musdtBalance[STAKING]))

\* one mUSDT was staked a day ago; the interest on it has been claimed and
\* the mUSDT is still staked and still with the ledger
C33_Witness ==
  /\ Succeeded("claimRewards")
  /\ lastCall.prev.op = "stakeMusdt"
  /\ lastCall.prev.user = lastCall.user
  /\ lastCall.time = lastCall.prev.time + SECONDS_PER_DAY
  /\ lastCall.minted # Zero
  /\ lastCall.pre.musdtStake.v = FromInt(ONE_MUSDT)
  /\ Post.musdtStake = lastCall.pre.musdtStake
  /\ musdtBalance[STAKING] = FromInt(ONE_MUSDT)

====
